---- MODULE Spec2Model ----
(***************************************************************************)
(* CatClient HDRV0 (src/Cat4k.py): the launcher core behind the Tk shell.  *)
(* State: the settings document in memory and on disk, the in-memory       *)
(* identity, the version catalog, the selected version, the runtime        *)
(* install directory.  One action per handler: start-up (__init__),        *)
(* update_mode, login, the version selection and prepare_and_launch.       *)
(* Tk runs the handlers on one thread, so each handler is one step.        *)
(***************************************************************************)
EXTENDS Naturals, Sequences, FiniteSets, TLC

VARIABLES
    pc,             \* "start" before __init__, then "running" or "crashed"
    file,           \* catclient_config.ini on disk: [exists, doc]
    config,         \* self.config
    logged_in,      \* self.logged_in
    access_token,   \* self.access_token
    username,       \* self.username
    uuid,           \* self.uuid
    versions,       \* self.versions: the dict, as its items in insertion order
    version_values, \* the values the version combobox was built with
    version_combo,  \* self.version_combo.get()
    java_dir,       \* os.path.exists(JAVA_DIR)
    java_exe,       \* the runtime executable exists under JAVA_DIR
    uuid_next,      \* how many uuid.uuid4() values have been drawn
    last,           \* what the most recent handler did (observation)
    ensure_log,     \* the last two install_java_if_needed calls (observation)
    issued,         \* the --uuid values of earlier offline launches (observation)
    listed,         \* the ids of the last well-formed manifest (observation)
    thr             \* a handler in progress, when handlers are followed line
                    \* by line: where login (lpc) and prepare_and_launch (ppc)
                    \* stand and the local values they hold

vars == <<pc, file, config, logged_in, access_token, username, uuid, versions,
          version_values, version_combo, java_dir, java_exe, uuid_next, last,
          ensure_log, issued, listed, thr>>

----------------------------------------------------------------------------
(* Bounds *)

\* uuid.uuid4() draws in one run (client_token at first run + offline launches)
MaxUuid == 2
\* entries of one manifest response, when the catalog is refreshed
MaxManifest == 2
\* entries of the manifest response at start-up
StartManifest == 1

----------------------------------------------------------------------------
(* Values *)

None == "None"              \* Python None
Missing == "<missing>"      \* a key that is not in a mapping

OfflineMode == "Offline Mode"
TLauncherMode == "TLauncher Mode"
\* the two values the mode combobox offers
ComboModes == {OfflineMode, TLauncherMode}
\* the value __init__ writes at first run
FirstRunMode == "offline"

DefaultVersion == "1.20.1"
\* os.path.join(JAVA_DIR, "bin", "java")
JavaPath == "~/.catclient/java/bin/java"

\* str(uuid.uuid4()): the n-th draw; draws never collide
Uuid4(n) == "uuid4-" \o ToString(n)

FileToken == "file-token"   \* a client_token found in an existing file

----------------------------------------------------------------------------
(* The settings document (configparser): the [settings] section and its    *)
(* three keys, each present or Missing.                                    *)

Doc(section, mode, java_path, client_token) ==
    [section |-> section, mode |-> mode, java_path |-> java_path,
     client_token |-> client_token]

\* configparser.ConfigParser() before anything is read
EmptyDoc == Doc(FALSE, Missing, Missing, Missing)

\* self.config['settings'] = {'mode': 'offline', 'java_path': '', 'client_token': str(uuid.uuid4())}
DefaultDoc(fresh) == Doc(TRUE, FirstRunMode, "", fresh)

\* the documents an existing file can hold: written by an earlier run, or
\* hand-edited so that keys (or the whole section) are gone
FileDocs ==
    {EmptyDoc} \cup
    { Doc(TRUE, m, j, c) : m \in {Missing, FirstRunMode} \cup ComboModes,
                           j \in {Missing, ""},
                           c \in {Missing, FileToken} }

\* fault injection: the file is opened for writing and nothing is written
WriteFile_Nothing(doc) == [exists |-> TRUE, doc |-> EmptyDoc]

\* with open(self.config_file, 'w') as f: self.config.write(f)
WriteFile(doc) == [exists |-> TRUE, doc |-> doc]

\* fault injection: update_mode rebuilds the section instead of setting one key
SetMode_NewSection(doc, m) == Doc(TRUE, m, doc.java_path, "regenerated")

\* self.config['settings'][key] = value
SetMode(doc, m) == [doc EXCEPT !.mode = m]
SetJavaPath(doc, p) == [doc EXCEPT !.java_path = p]
SetClientToken(doc, t) == [doc EXCEPT !.client_token = t]

----------------------------------------------------------------------------
(* The version catalog *)

Ids == {"1.20.1", "23w13a", ""}
Urls == {"u1", "u2"}

\* one element of the manifest's "versions" array; a key may be missing
Entries(urls) == [id : Ids \cup {Missing}, url : urls]
WellFormed(e) == e.id # Missing

SeqsUpTo(S, n) == UNION { [1..k -> S] : k \in 0..n }

\* what urlopen(VERSION_MANIFEST_URL) can give: no response at all, a body
\* that is not JSON (or has no "versions"), or a JSON document with a
\* "versions" array
FetchResults(urls, n) ==
    { [kind |-> k, entries |-> <<>>] : k \in {"unreachable", "bad_body"} } \cup
    { [kind |-> "json", entries |-> es] : es \in SeqsUpTo(Entries(urls), n) }

\* dict insertion: a key already present keeps its place and takes the new value
RECURSIVE DictFromEntries(_, _)
DictFromEntries(items, es) ==
    IF es = <<>> THEN items
    ELSE LET e == Head(es)
             at == { i \in 1..Len(items) : items[i].id = e.id }
         IN  DictFromEntries(
                 IF at = {} THEN Append(items, e)
                 ELSE [i \in 1..Len(items) |->
                          IF i \in at THEN e ELSE items[i]],
                 Tail(es))

Keys(items) == { items[i].id : i \in 1..Len(items) }
KeyList(items) == [i \in 1..Len(items) |-> items[i].id]
\* self.versions.get(id)
Lookup(items, id) ==
    IF id \in Keys(items)
    THEN items[CHOOSE i \in 1..Len(items) : items[i].id = id].url
    ELSE None

\* fetch_versions: the new self.versions.  The comprehension builds the whole
\* dict before the assignment; any exception ends in the except branch.
fetch_versions(old, result) ==
    IF result.kind = "json" /\ \A i \in 1..Len(result.entries) :
                                   WellFormed(result.entries[i])
    THEN DictFromEntries(<<>>, result.entries)
    ELSE <<>>

\* the ids a manifest lists, in its order (an id listed twice counts once)
RECURSIVE ManifestIds(_)
ManifestIds(es) ==
    IF es = <<>> THEN <<>>
    ELSE LET front == ManifestIds(SubSeq(es, 1, Len(es) - 1))
             e == es[Len(es)]
         IN  IF \E i \in 1..Len(front) : front[i] = e.id
             THEN front ELSE Append(front, e.id)

\* whether the fetch ended in the except branch
FetchFailed(result) ==
    ~(result.kind = "json" /\ \A i \in 1..Len(result.entries) :
                                  WellFormed(result.entries[i]))

\* the ids of the most recent fetch that did not fail
Listed(old, result) ==
    IF FetchFailed(result) THEN old
    ELSE [ok |-> TRUE, ids |-> ManifestIds(result.entries)]

----------------------------------------------------------------------------
(* The authentication exchange *)

Identities == {"A", "B"}
Token(w) == "token-" \o w
ProfileId(w) == "id-" \o w
ProfileName(w) == "name-" \o w

NoProfile == [present |-> FALSE, id |-> Missing, name |-> Missing]
Profile(id, name) == [present |-> TRUE, id |-> id, name |-> name]

Response(kind, decodable, accessToken, selectedProfile) ==
    [kind |-> kind, decodable |-> decodable, accessToken |-> accessToken,
     selectedProfile |-> selectedProfile]

\* what urlopen(req) can give: no response (URLError), a non-2xx status
\* (HTTPError) whose body decodes as UTF-8 or does not, a 2xx body that is not
\* a JSON object, or a 2xx JSON object with some of the expected keys
LoginResponses ==
    { Response("unreachable", TRUE, Missing, NoProfile),
      Response("2xx_bad_body", TRUE, Missing, NoProfile) } \cup
    { Response("http_error", d, Missing, NoProfile) : d \in BOOLEAN } \cup
    UNION { { Response("2xx", TRUE, Token(w),
                       Profile(ProfileId(w), ProfileName(w))),
              Response("2xx", TRUE, Missing,
                       Profile(ProfileId(w), ProfileName(w))),
              Response("2xx", TRUE, Token(w), NoProfile),
              Response("2xx", TRUE, Token(w), Profile(Missing, ProfileName(w))),
              Response("2xx", TRUE, Token(w), Profile(ProfileId(w), Missing)) } :
            w \in Identities }

\* the success response of the protocol: accessToken and selectedProfile
\* with id and name (the three values lines 216-218 read)
Complete(resp) ==
    /\ resp.kind = "2xx"
    /\ resp.accessToken # Missing
    /\ resp.selectedProfile.present
    /\ resp.selectedProfile.id # Missing
    /\ resp.selectedProfile.name # Missing

Session(li, tok, name, id, outcome) ==
    [logged_in |-> li, access_token |-> tok, username |-> name, uuid |-> id,
     outcome |-> outcome]

\* fault injection: the except branches report the error but keep the flag
LoginFailed_KeepsFlag(s) == [s EXCEPT !.outcome = "error"]

\* except ...: messagebox.showerror(...); self.logged_in = False
LoginFailed(s) == [s EXCEPT !.logged_in = FALSE, !.outcome = "error"]

\* login, lines 213-228: the session after the response has been handled.
\* The three fields are assigned one by one, so a KeyError part-way leaves the
\* earlier ones assigned.  In the HTTPError handler the body is read and
\* decoded before logged_in is reset; a decode error leaves the handler there.
login(cur, resp) ==
    LET s0 == [cur EXCEPT !.outcome = "raised"] IN
    CASE resp.kind = "2xx" ->
            IF resp.accessToken = Missing THEN LoginFailed(s0)
            ELSE LET s1 == [s0 EXCEPT !.access_token = resp.accessToken] IN
                 IF ~resp.selectedProfile.present
                    \/ resp.selectedProfile.id = Missing
                 THEN LoginFailed(s1)
                 ELSE LET s2 == [s1 EXCEPT !.uuid = resp.selectedProfile.id] IN
                      IF resp.selectedProfile.name = Missing
                      THEN LoginFailed(s2)
                      ELSE [s2 EXCEPT !.username = resp.selectedProfile.name,
                                      !.logged_in = TRUE,
                                      !.outcome = "success"]
      [] resp.kind = "http_error" ->
            IF resp.decodable THEN LoginFailed(s0) ELSE s0
      [] OTHER -> LoginFailed(s0)

\* payload["clientToken"], lines 197-203
PayloadClientToken(doc) == doc.client_token

----------------------------------------------------------------------------
(* The runtime *)

\* fault injection: the presence check never finds the runtime
RuntimePresent_Never(dir, exe) == FALSE

\* line 237: the presence check looks at the directory only
RuntimePresent(dir, exe) == dir

\* install_java_if_needed: the directory, the settings and the result.  The
\* download is a placeholder: nothing ever creates the executable.
install_java_if_needed(dir, exe, doc, mkdir_ok) ==
    IF ~RuntimePresent(dir, exe) /\ ~mkdir_ok
    THEN [raised |-> TRUE, attempt |-> TRUE, dir |-> dir, config |-> doc,
          path |-> None]
    ELSE [raised |-> FALSE, attempt |-> ~RuntimePresent(dir, exe),
          dir |-> TRUE, config |-> SetJavaPath(doc, JavaPath),
          path |-> JavaPath]

\* what ensure_log keeps of one call
EnsureRecord(r, changed) ==
    [raised |-> r.raised, attempt |-> r.attempt, path |-> r.path,
     changed |-> changed]

Remember(log, rec) ==
    IF Len(log) < 2 THEN Append(log, rec) ELSE <<log[2], rec>>

----------------------------------------------------------------------------
(* The launch *)

\* fault injection: the mode is compared with a string the combobox never holds
NeedsLogin_WrongString(mode, li) == mode = "TLauncher" /\ ~li

\* line 250
NeedsLogin(mode, li) == mode = TLauncherMode /\ ~li

\* line 255: "if not version"; the catalog is not consulted
VersionRejected(version, items) == version = ""

\* version.split('.')
SplitDot(version) ==
    CASE version = "1.20.1" -> <<"1", "20", "1">>
      [] version = "23w13a" -> <<"23w13a">>
      [] OTHER -> <<version>>

\* version.split('.')[1] raises IndexError when there is no second part
HasAssetIndex(version) == Len(SplitDot(version)) >= 2
AssetIndex(version) == SplitDot(version)[2]

\* fault injection: the stored token is passed whether or not the session is signed in
EffectiveIdentity_StoredToken(li, name, id, tok, fresh) ==
    [username |-> IF li THEN name ELSE "Player",
     uuid |-> IF li THEN id ELSE fresh,
     accessToken |-> tok]

\* lines 267, 272, 273
EffectiveIdentity(li, name, id, tok, fresh) ==
    [username |-> IF li THEN name ELSE "Player",
     uuid |-> IF li THEN id ELSE fresh,
     accessToken |-> IF li THEN tok ELSE "0"]

NoCmd == [java |-> None, username |-> None, version |-> None,
          assetIndex |-> None, uuid |-> None, accessToken |-> None]

LaunchCmd(java, version, ident) ==
    [java |-> java, username |-> ident.username, version |-> version,
     assetIndex |-> AssetIndex(version), uuid |-> ident.uuid,
     accessToken |-> ident.accessToken]

\* retry: the handler before this one was a launch whose spawn failed
LaunchObs(outcome, ensured, attempt, spawn, cmd) ==
    [op |-> "launch", outcome |-> outcome, ensured |-> ensured,
     attempt |-> attempt, spawn |-> spawn, cmd |-> cmd,
     retry |-> (last.op = "launch" /\ last.outcome = "spawn_failed")]

\* fault injection: a failed spawn is not caught and ends the application
SpawnResult_Fatal(spawn_ok) ==
    IF spawn_ok THEN [outcome |-> "spawned", pc |-> "running"]
    ELSE [outcome |-> "spawn_failed", pc |-> "crashed"]

\* lines 275-279: Popen in a try; a failure is shown in a message box and the
\* handler returns
SpawnResult(spawn_ok) ==
    IF spawn_ok THEN [outcome |-> "spawned", pc |-> "running"]
    ELSE [outcome |-> "spawn_failed", pc |-> "running"]

\* no handler is in progress
NoResponse == Response("none", TRUE, Missing, NoProfile)
IdleThreads == [lpc |-> "idle", resp |-> NoResponse, ppc |-> "idle",
                name |-> None, id |-> None, path |-> None, attempt |-> FALSE]

----------------------------------------------------------------------------
(* Initial states: before __init__ runs.  The settings file is absent or   *)
(* holds one of FileDocs; the runtime directory may be there from an       *)
(* earlier run, with or without an executable in it.                       *)

Init ==
    /\ pc = "start"
    /\ file \in {[exists |-> FALSE, doc |-> EmptyDoc]}
                \cup { WriteFile(d) : d \in FileDocs }
    /\ config = EmptyDoc
    /\ logged_in = FALSE
    /\ access_token = None
    /\ username = None
    /\ uuid = None
    /\ versions = <<>>
    /\ version_values = <<>>
    /\ version_combo = ""
    /\ java_dir \in BOOLEAN
    /\ java_exe \in BOOLEAN
    /\ java_exe => java_dir
    /\ uuid_next = 0
    /\ last = [op |-> "none"]
    /\ ensure_log = <<>>
    /\ issued = <<>>
    /\ listed = [ok |-> FALSE, ids |-> <<>>]
    /\ thr = IdleThreads

\* lines 188-191: the login fields (and the Login button) are packed only
\* while the mode is "TLauncher Mode"
AuthFieldsVisible(doc) == doc.mode = TLauncherMode

----------------------------------------------------------------------------
(* __init__, lines 33-65: load or create the settings, make sure there is  *)
(* a client_token, fetch the catalog, build the pages (create_home_page    *)
(* sets the default version, create_settings_page reads the mode and calls *)
(* update_mode).  A KeyError on a missing section or mode ends start-up.   *)

Startup(result) ==
    /\ pc = "start"
    /\ LET fresh == Uuid4(uuid_next)
           loaded == IF file.exists THEN file.doc ELSE DefaultDoc(fresh)
           file1 == IF file.exists THEN file ELSE WriteFile(loaded)
           regen == loaded.section /\ loaded.client_token = Missing
           doc1 == IF regen THEN SetClientToken(loaded, fresh) ELSE loaded
           file2 == IF regen THEN WriteFile(doc1) ELSE file1
           fetched == fetch_versions(versions, result)
       IN  IF ~loaded.section
           THEN /\ pc' = "crashed"
                /\ config' = loaded
                /\ last' = [op |-> "startup", outcome |-> "no_section"]
                /\ UNCHANGED <<file, versions, version_values, version_combo,
                               uuid_next, listed>>
           ELSE /\ config' = doc1
                /\ uuid_next' = IF ~file.exists \/ regen
                                THEN uuid_next + 1 ELSE uuid_next
                /\ versions' = fetched
                /\ listed' = Listed(listed, result)
                /\ version_values' = KeyList(fetched)
                /\ version_combo' = DefaultVersion
                /\ IF doc1.mode = Missing
                   THEN /\ pc' = "crashed"
                        /\ file' = file2
                        /\ last' = [op |-> "startup", outcome |-> "no_mode"]
                   ELSE /\ pc' = "running"
                        /\ file' = WriteFile(SetMode(doc1, doc1.mode))
                        /\ last' = [op |-> "startup", outcome |-> "running"]
    /\ UNCHANGED <<logged_in, access_token, username, uuid, java_dir, java_exe,
                   ensure_log, issued, thr>>

\* update_mode, lines 182-191, with the mode the user picked in the combobox
UpdateMode(mode) ==
    /\ pc = "running"
    /\ config' = SetMode(config, mode)
    /\ file' = WriteFile(config')
    /\ last' = [op |-> "update_mode", mode |-> mode]
    /\ UNCHANGED <<pc, logged_in, access_token, username, uuid, versions,
                   version_values, version_combo, java_dir, java_exe,
                   uuid_next, ensure_log, issued, listed, thr>>

\* what last keeps of one login: how it ended, the response's class and the
\* clientToken that was sent
LoginObs(outcome, resp) ==
    [op |-> "login", outcome |-> outcome, kind |-> resp.kind,
     complete |-> Complete(resp),
     who |-> IF Complete(resp) THEN resp.accessToken ELSE None,
     clientToken |-> PayloadClientToken(config)]

\* login, lines 193-228, with the response the provider gives
Login(resp) ==
    /\ pc = "running"
    /\ AuthFieldsVisible(config)
    /\ LET s == login(Session(logged_in, access_token, username, uuid, "none"),
                      resp)
       IN  /\ logged_in' = s.logged_in
           /\ access_token' = s.access_token
           /\ username' = s.username
           /\ uuid' = s.uuid
           /\ last' = LoginObs(s.outcome, resp)
    /\ UNCHANGED <<pc, file, config, versions, version_values, version_combo,
                   java_dir, java_exe, uuid_next, ensure_log, issued, listed,
                   thr>>

\* the user picks one of the combobox's values (lines 123-125, readonly)
SelectVersion(i) ==
    /\ pc = "running"
    /\ i \in 1..Len(version_values)
    /\ version_combo' = version_values[i]
    /\ last' = [op |-> "select"]
    /\ UNCHANGED <<pc, file, config, logged_in, access_token, username, uuid,
                   versions, version_values, java_dir, java_exe, uuid_next,
                   ensure_log, issued, listed, thr>>

\* fetch_versions called again on the running client (the catalog's refresh)
Refresh(result) ==
    /\ pc = "running"
    /\ versions' = fetch_versions(versions, result)
    /\ listed' = Listed(listed, result)
    /\ last' = [op |-> "fetch", failed |-> FetchFailed(result)]
    /\ UNCHANGED <<pc, file, config, logged_in, access_token, username, uuid,
                   version_values, version_combo, java_dir, java_exe,
                   uuid_next, ensure_log, issued, thr>>

\* lines 261-279: the command and the spawn, once install_java_if_needed
\* returned path.  An IndexError at line 271 leaves the handler.
LaunchTail(path, attempt, spawn_ok) ==
    LET ident == EffectiveIdentity(logged_in, username, uuid, access_token,
                                   Uuid4(uuid_next))
        cmd == LaunchCmd(path, version_combo, ident)
        res == SpawnResult(spawn_ok)
    IN  IF ~HasAssetIndex(version_combo)
        THEN /\ last' = LaunchObs("index_error", TRUE, attempt, FALSE, NoCmd)
             /\ pc' = "running"
             /\ UNCHANGED <<uuid_next, issued>>
        ELSE /\ logged_in \/ uuid_next < MaxUuid
             /\ uuid_next' = IF logged_in THEN uuid_next ELSE uuid_next + 1
             /\ issued' = IF logged_in THEN issued
                          ELSE Append(issued, cmd.uuid)
             /\ pc' = res.pc
             /\ last' = LaunchObs(res.outcome, TRUE, attempt, TRUE, cmd)

\* prepare_and_launch, lines 248-279.  mkdir_ok: os.makedirs succeeds;
\* spawn_ok: subprocess.Popen succeeds (it cannot without the executable).
PrepareAndLaunch(mkdir_ok, spawn_ok) ==
    /\ pc = "running"
    /\ spawn_ok => java_exe
    /\ IF NeedsLogin(config.mode, logged_in)
       THEN /\ last' = LaunchObs("auth_required", FALSE, FALSE, FALSE, NoCmd)
            /\ UNCHANGED <<pc, file, config, java_dir, uuid_next, ensure_log,
                           issued>>
       ELSE IF VersionRejected(version_combo, versions)
       THEN /\ last' = LaunchObs("no_version", FALSE, FALSE, FALSE, NoCmd)
            /\ UNCHANGED <<pc, file, config, java_dir, uuid_next, ensure_log,
                           issued>>
       ELSE LET r == install_java_if_needed(java_dir, java_exe, config,
                                            mkdir_ok)
            IN  /\ ensure_log' =
                       Remember(ensure_log, EnsureRecord(r, r.config # config))
                /\ java_dir' = r.dir
                /\ config' = r.config
                /\ file' = IF r.raised THEN file ELSE WriteFile(r.config)
                /\ IF r.raised
                   THEN /\ last' = LaunchObs("ensure_raised", TRUE, r.attempt,
                                             FALSE, NoCmd)
                        /\ UNCHANGED <<pc, uuid_next, issued>>
                   ELSE LaunchTail(r.path, r.attempt, spawn_ok)
    /\ UNCHANGED <<logged_in, access_token, username, uuid, versions,
                   version_values, version_combo, java_exe, listed, thr>>

----------------------------------------------------------------------------
(* The client as it runs: start-up, then the handlers in any order *)

Next ==
    \/ \E result \in FetchResults({"u1"}, StartManifest) : Startup(result)
    \/ \E mode \in ComboModes : UpdateMode(mode)
    \/ \E resp \in LoginResponses : Login(resp)
    \/ \E i \in 1..StartManifest : SelectVersion(i)
    \/ \E mkdir_ok \in BOOLEAN, spawn_ok \in BOOLEAN :
           PrepareAndLaunch(mkdir_ok, spawn_ok)

Spec == Init /\ [][Next]_vars

(* The catalog with its refresh operation callable on the running client *)

NextCatalog ==
    \/ \E result \in FetchResults(Urls, MaxManifest) : Startup(result)
    \/ \E result \in FetchResults(Urls, MaxManifest) : Refresh(result)
    \/ \E i \in 1..MaxManifest : SelectVersion(i)

\* a first run: no settings file yet
InitCatalog == Init /\ ~file.exists

SpecCatalog == InitCatalog /\ [][NextCatalog]_vars

(* The save followed step by step: open(self.config_file, 'w') empties the *)
(* file, self.config.write(f) and the close put the document there.  The   *)
(* process can be killed in between.                                       *)

\* the file right after open(..., 'w')
Truncated == [exists |-> TRUE, doc |-> EmptyDoc]

\* update_mode, lines 184-186, up to the open
UpdateModeOpen(mode) ==
    /\ pc = "running"
    /\ config' = SetMode(config, mode)
    /\ file' = Truncated
    /\ pc' = "saving"
    /\ last' = [op |-> "update_mode", mode |-> mode]
    /\ UNCHANGED <<logged_in, access_token, username, uuid, versions,
                   version_values, version_combo, java_dir, java_exe,
                   uuid_next, ensure_log, issued, listed, thr>>

\* update_mode, lines 187-191: the write, then the login fields
UpdateModeClose ==
    /\ pc = "saving"
    /\ file' = WriteFile(config)
    /\ pc' = "running"
    /\ UNCHANGED <<config, logged_in, access_token, username, uuid, versions,
                   version_values, version_combo, java_dir, java_exe,
                   uuid_next, last, ensure_log, issued, listed, thr>>

\* prepare_and_launch through install_java_if_needed up to the open at line
\* 244, for a launch that gets there
LaunchOpen(mkdir_ok) ==
    /\ pc = "running"
    /\ thr.ppc = "idle"
    /\ ~NeedsLogin(config.mode, logged_in)
    /\ ~VersionRejected(version_combo, versions)
    /\ LET r == install_java_if_needed(java_dir, java_exe, config, mkdir_ok)
       IN  /\ ~r.raised
           /\ ensure_log' =
                  Remember(ensure_log, EnsureRecord(r, r.config # config))
           /\ java_dir' = r.dir
           /\ config' = r.config
           /\ thr' = [thr EXCEPT !.path = r.path, !.attempt = r.attempt]
    /\ file' = Truncated
    /\ pc' = "saving_launch"
    /\ last' = [op |-> "launch_open"]
    /\ UNCHANGED <<logged_in, access_token, username, uuid, versions,
                   version_values, version_combo, java_exe, uuid_next, issued,
                   listed>>

\* lines 245-279: the write, then the rest of the launch
LaunchClose(spawn_ok) ==
    /\ pc = "saving_launch"
    /\ spawn_ok => java_exe
    /\ file' = WriteFile(config)
    /\ LaunchTail(thr.path, thr.attempt, spawn_ok)
    /\ thr' = IdleThreads
    /\ UNCHANGED <<config, logged_in, access_token, username, uuid, versions,
                   version_values, version_combo, java_dir, java_exe,
                   ensure_log, listed>>

\* a launch that ends before it saves anything (lines 250-257, or os.makedirs
\* raising)
LaunchNoSave(mkdir_ok) ==
    /\ thr.ppc = "idle"
    /\ PrepareAndLaunch(mkdir_ok, FALSE)
    /\ last'.outcome \in {"auth_required", "no_version", "ensure_raised"}

\* the process is killed between the open and the write
Kill ==
    /\ pc \in {"saving", "saving_launch"}
    /\ pc' = "crashed"
    /\ last' = [op |-> "killed"]
    /\ UNCHANGED <<file, config, logged_in, access_token, username, uuid,
                   versions, version_values, version_combo, java_dir, java_exe,
                   uuid_next, ensure_log, issued, listed, thr>>

NextSave ==
    \/ \E result \in FetchResults({"u1"}, StartManifest) : Startup(result)
    \/ \E mode \in ComboModes : UpdateModeOpen(mode)
    \/ UpdateModeClose
    \/ \E mkdir_ok \in BOOLEAN : LaunchOpen(mkdir_ok)
    \/ \E spawn_ok \in BOOLEAN : LaunchClose(spawn_ok)
    \/ \E mkdir_ok \in BOOLEAN : LaunchNoSave(mkdir_ok)
    \/ \E i \in 1..StartManifest : SelectVersion(i)
    \/ Kill

SpecSave == Init /\ [][NextSave]_vars

(* login and prepare_and_launch called from two threads: each runs its      *)
(* lines in order, the two interleave in any way.  Neither takes a lock or  *)
(* a copy of the session.                                                   *)

\* login, lines 195-214 and the except branches: the request and its answer.
\* A parsed 2xx body goes on to lines 216-219, anything else is handled here.
LoginSend(resp) ==
    /\ pc = "running"
    /\ AuthFieldsVisible(config)
    /\ thr.lpc = "idle"
    /\ IF resp.kind = "2xx"
       THEN /\ thr' = [thr EXCEPT !.lpc = "l216", !.resp = resp]
            /\ last' = [op |-> "login_step"]
            /\ UNCHANGED <<logged_in, access_token, username, uuid>>
       ELSE LET s == login(Session(logged_in, access_token, username, uuid,
                                   "none"), resp)
            IN  /\ logged_in' = s.logged_in
                /\ access_token' = s.access_token
                /\ username' = s.username
                /\ uuid' = s.uuid
                /\ last' = LoginObs(s.outcome, resp)
                /\ UNCHANGED thr
    /\ UNCHANGED <<pc, file, config, versions, version_values, version_combo,
                   java_dir, java_exe, uuid_next, ensure_log, issued, listed>>

\* login, one of lines 216, 217, 218, 219; a KeyError goes to line 226-228
LoginStep ==
    /\ pc = "running"
    /\ thr.lpc \in {"l216", "l217", "l218", "l219"}
    /\ LET resp == thr.resp
           missing ==
               CASE thr.lpc = "l216" -> resp.accessToken = Missing
                 [] thr.lpc = "l217" -> \/ ~resp.selectedProfile.present
                                        \/ resp.selectedProfile.id = Missing
                 [] thr.lpc = "l218" -> resp.selectedProfile.name = Missing
                 [] OTHER -> FALSE
           next == CASE thr.lpc = "l216" -> "l217"
                     [] thr.lpc = "l217" -> "l218"
                     [] thr.lpc = "l218" -> "l219"
                     [] OTHER -> "idle"
       IN  IF missing
           THEN /\ logged_in' = FALSE
                /\ thr' = [thr EXCEPT !.lpc = "idle", !.resp = NoResponse]
                /\ last' = LoginObs("error", resp)
                /\ UNCHANGED <<access_token, username, uuid>>
           ELSE /\ access_token' = IF thr.lpc = "l216" THEN resp.accessToken
                                   ELSE access_token
                /\ uuid' = IF thr.lpc = "l217" THEN resp.selectedProfile.id
                           ELSE uuid
                /\ username' = IF thr.lpc = "l218"
                               THEN resp.selectedProfile.name ELSE username
                /\ logged_in' = IF thr.lpc = "l219" THEN TRUE ELSE logged_in
                /\ thr' = [thr EXCEPT
                              !.lpc = next,
                              !.resp = IF next = "idle" THEN NoResponse
                                       ELSE resp]
                /\ last' = IF next = "idle" THEN LoginObs("success", resp)
                           ELSE [op |-> "login_step"]
    /\ UNCHANGED <<pc, file, config, versions, version_values, version_combo,
                   java_dir, java_exe, uuid_next, ensure_log, issued, listed>>

\* prepare_and_launch, lines 248-259, for a launch that gets to line 261
LaunchBegin(mkdir_ok) ==
    /\ pc = "running"
    /\ thr.ppc = "idle"
    /\ ~NeedsLogin(config.mode, logged_in)
    /\ ~VersionRejected(version_combo, versions)
    /\ LET r == install_java_if_needed(java_dir, java_exe, config, mkdir_ok)
       IN  /\ ~r.raised
           /\ ensure_log' =
                  Remember(ensure_log, EnsureRecord(r, r.config # config))
           /\ java_dir' = r.dir
           /\ config' = r.config
           /\ file' = WriteFile(r.config)
           /\ thr' = [thr EXCEPT !.ppc = "p267", !.path = r.path,
                                 !.attempt = r.attempt]
    /\ last' = [op |-> "launch_step"]
    /\ UNCHANGED <<pc, logged_in, access_token, username, uuid, versions,
                   version_values, version_combo, java_exe, uuid_next, issued,
                   listed>>

\* what the launch holds when it has returned
LaunchDone == [thr EXCEPT !.ppc = "idle", !.name = None, !.id = None,
                          !.path = None, !.attempt = FALSE]

\* prepare_and_launch, the elements of launch_cmd in the order they are
\* evaluated: line 267 (username), lines 271-272 (assetIndex, uuid), line 273
\* (accessToken) and the spawn at lines 275-279.  Each reads the session as it
\* is at that moment.
LaunchStep(spawn_ok) ==
    /\ pc = "running"
    /\ thr.ppc \in {"p267", "p272", "p273"}
    /\ LET ident == EffectiveIdentity(logged_in, username, uuid, access_token,
                                      Uuid4(uuid_next))
           res == SpawnResult(spawn_ok)
           cmd == LaunchCmd(thr.path, version_combo,
                            [username |-> thr.name, uuid |-> thr.id,
                             accessToken |-> ident.accessToken])
       IN  CASE thr.ppc = "p267" ->
                  /\ thr' = [thr EXCEPT !.ppc = "p272",
                                        !.name = ident.username]
                  /\ last' = [op |-> "launch_step"]
                  /\ UNCHANGED <<pc, uuid_next, issued>>
             [] thr.ppc = "p272" /\ ~HasAssetIndex(version_combo) ->
                  /\ thr' = LaunchDone
                  /\ last' = LaunchObs("index_error", TRUE, thr.attempt, FALSE,
                                       NoCmd)
                  /\ UNCHANGED <<pc, uuid_next, issued>>
             [] thr.ppc = "p272" /\ HasAssetIndex(version_combo) ->
                  /\ logged_in \/ uuid_next < MaxUuid
                  /\ uuid_next' = IF logged_in THEN uuid_next
                                  ELSE uuid_next + 1
                  /\ issued' = IF logged_in THEN issued
                               ELSE Append(issued, ident.uuid)
                  /\ thr' = [thr EXCEPT !.ppc = "p273", !.id = ident.uuid]
                  /\ last' = [op |-> "launch_step"]
                  /\ UNCHANGED pc
             [] OTHER ->
                  /\ spawn_ok => java_exe
                  /\ thr' = LaunchDone
                  /\ pc' = res.pc
                  /\ last' = LaunchObs(res.outcome, TRUE, thr.attempt, TRUE,
                                       cmd)
                  /\ UNCHANGED <<uuid_next, issued>>
    /\ UNCHANGED <<file, config, logged_in, access_token, username, uuid,
                   versions, version_values, version_combo, java_dir, java_exe,
                   ensure_log, listed>>

\* the settings file of a client that was left in "TLauncher Mode"
InitConcurrent ==
    /\ Init
    /\ file.exists
    /\ file.doc.section
    /\ file.doc.mode = TLauncherMode

NextConcurrent ==
    \/ \E result \in FetchResults({"u1"}, StartManifest) : Startup(result)
    \/ \E resp \in LoginResponses : LoginSend(resp)
    \/ LoginStep
    \/ \E mkdir_ok \in BOOLEAN : LaunchBegin(mkdir_ok)
    \/ \E spawn_ok \in BOOLEAN : LaunchStep(spawn_ok)
    \/ \E mkdir_ok \in BOOLEAN : LaunchNoSave(mkdir_ok)

SpecConcurrent == InitConcurrent /\ [][NextConcurrent]_vars

----------------------------------------------------------------------------
(* The client from its first run *)

SpecFirstRun == InitCatalog /\ [][Next]_vars

----------------------------------------------------------------------------
(* Properties.  Every action writes its own name into last.op, so a step   *)
(* with last'.op = "launch" is a prepare_and_launch step, and so on.       *)

\* C1: a launch in "TLauncher Mode" with nobody signed in ends with the
\* auth-required error whatever version is selected, and neither calls
\* install_java_if_needed nor spawns (directory, settings and file untouched).
C1_AuthRequiredFirst ==
    [][ (last'.op = "launch" /\ config.mode = TLauncherMode /\ ~logged_in)
        => /\ last'.outcome = "auth_required"
           /\ ~last'.ensured
           /\ ~last'.spawn
           /\ UNCHANGED <<java_dir, config, file, ensure_log, uuid_next>>
      ]_vars

\* C1 witness: the auth-required error with the empty version selected
C1_Witness ==
    /\ last.op = "launch"
    /\ last.outcome = "auth_required"
    /\ config.mode = TLauncherMode
    /\ ~logged_in
    /\ version_combo = ""

\* C2 (as claimed): a failed fetch_versions leaves a non-empty mapping as it
\* was.
C2_FailedRefreshKeepsCatalog ==
    [][ (last'.op = "fetch" /\ last'.failed /\ versions # <<>>)
        => versions' = versions ]_vars

\* C3: the session becomes signed in only in a login step whose response held
\* accessToken and selectedProfile with id and name; a login step with a 2xx
\* response missing any of them ends signed out with an error, also when the
\* session was signed in before.
C3_SignedInOnlyAfterCompleteResponse ==
    [][ /\ (~logged_in /\ logged_in')
            => (last'.op = "login" /\ last'.complete
                /\ last'.outcome = "success")
        /\ (last'.op = "login" /\ last'.kind = "2xx" /\ ~last'.complete)
            => (~logged_in' /\ last'.outcome = "error")
      ]_vars

\* C3 witness: A was signed in, then a 2xx response with B's token and no
\* profile ended the login signed out
C3_Witness ==
    /\ last.op = "login"
    /\ last.kind = "2xx"
    /\ ~last.complete
    /\ ~logged_in
    /\ username = ProfileName("A")
    /\ access_token = Token("B")

\* C4 (as claimed): after every login that did not succeed (no response, a
\* non-2xx status, a malformed body) the session is signed out.
C4_FailedLoginSignsOut ==
    (last.op = "login" /\ ~last.complete) => ~logged_in

\* C5 (as claimed): after update_mode selected a mode other than
\* "TLauncher Mode" the session is signed out.
C5_ModeSwitchSignsOut ==
    (last.op = "update_mode" /\ last.mode # TLauncherMode) => ~logged_in

\* C6 (as claimed): a launch that is past the auth check and whose version is
\* empty or not a key of the catalog ends with the version error, without
\* install_java_if_needed and without a spawn.
C6_UnknownVersionRejected ==
    (/\ last.op = "launch"
     /\ last.outcome # "auth_required"
     /\ (version_combo = "" \/ version_combo \notin Keys(versions)))
    => (last.outcome = "no_version" /\ ~last.ensured /\ ~last.spawn)

\* C7: start-up keeps the client_token it finds in the file; from then on no
\* step changes it, in memory or in the file, and every authentication
\* request carries it.
C7_ClientTokenStable ==
    [][ /\ (pc = "start" /\ pc' = "running" /\ file.exists
            /\ file.doc.client_token # Missing)
            => config'.client_token = file.doc.client_token
        /\ pc' = "running"
            => (config'.client_token # Missing
                /\ file'.doc.client_token = config'.client_token)
        /\ pc = "running"
            => (config'.client_token = config.client_token
                /\ (last'.op = "login"
                    => last'.clientToken = config.client_token))
      ]_vars

\* C7 witness: a login request carrying the file's token after the mode was
\* changed and a launch rewrote the settings
C7_Witness ==
    /\ last.op = "login"
    /\ last.clientToken = FileToken
    /\ config.client_token = FileToken
    /\ file.doc.client_token = FileToken
    /\ config.java_path = JavaPath
    /\ ensure_log # <<>>

\* C8 (as claimed): install_java_if_needed takes the runtime as present only
\* when the executable is there.
C8_DirectoryAloneNotPresent ==
    \A i \in 1..Len(ensure_log) :
        (~ensure_log[i].attempt /\ ~ensure_log[i].raised) => java_exe

\* C9: of two install_java_if_needed calls in a row, the first not failing,
\* the second does not fail, makes no provisioning attempt, returns the same
\* path and leaves the settings as they were.
C9_EnsureIdempotent ==
    (Len(ensure_log) = 2 /\ ~ensure_log[1].raised)
    => /\ ~ensure_log[2].raised
       /\ ~ensure_log[2].attempt
       /\ ensure_log[2].path = ensure_log[1].path
       /\ ~ensure_log[2].changed

\* C9 witness: the first call provisioned, the second did not
C9_Witness ==
    /\ Len(ensure_log) = 2
    /\ ensure_log[1].attempt
    /\ ~ensure_log[1].raised
    /\ ~ensure_log[2].attempt

\* C10: a launch that reaches the spawn passes either the stored profile
\* name, profile id and access token (signed in) or "Player", a new non-empty
\* id that no earlier launch used, and "0" (not signed in); a launch outside
\* "TLauncher Mode" is never refused for lack of identity.
C10_IdentityFromOneSource ==
    /\ (last.op = "launch" /\ last.spawn)
       => IF logged_in
          THEN /\ last.cmd.username = username
               /\ last.cmd.uuid = uuid
               /\ last.cmd.accessToken = access_token
          ELSE /\ last.cmd.username = "Player"
               /\ last.cmd.accessToken = "0"
               /\ last.cmd.uuid \notin {"", None}
               /\ issued # <<>>
               /\ last.cmd.uuid = issued[Len(issued)]
    /\ \A i, j \in 1..Len(issued) : i # j => issued[i] # issued[j]
    /\ (last.op = "launch" /\ config.mode # TLauncherMode)
       => last.outcome # "auth_required"

\* C10 witness: the second offline launch in "Offline Mode" reached the spawn
C10_Witness ==
    /\ last.op = "launch"
    /\ last.spawn
    /\ ~logged_in
    /\ config.mode = OfflineMode
    /\ Len(issued) = 2

\* C11: a launch whose spawn fails leaves the application running and the
\* session (flag and identity fields), the catalog and the mode as they were.
C11_SpawnFailureRecoverable ==
    [][ (last'.op = "launch" /\ last'.outcome = "spawn_failed")
        => /\ pc' = "running"
           /\ UNCHANGED <<logged_in, access_token, username, uuid, versions,
                          version_values>>
           /\ config'.mode = config.mode
      ]_vars

\* C11 witness: a signed-in launch spawned right after one whose spawn failed
C11_Witness ==
    /\ last.op = "launch"
    /\ last.outcome = "spawned"
    /\ last.retry
    /\ logged_in
    /\ pc = "running"

\* C12 (as claimed): once a fetch has succeeded, the catalog's keys are the
\* ids of the most recent successful manifest, in the manifest's order.
C12_CatalogIsLatestManifest ==
    listed.ok => KeyList(versions) = listed.ids

\* C13 (as claimed): start-up on any settings file ends with the client
\* running, every key present in memory and the same document on disk.
C13_StartupToleratesMissingKeys ==
    last.op = "startup"
    => /\ pc = "running"
       /\ config.mode # Missing
       /\ config.java_path # Missing
       /\ config.client_token # Missing
       /\ file.doc = config

\* C14 (as claimed): from the first run on, the mode in memory and in the
\* file is one of the two values of the mode combobox.
C14_ModeIsOneOfTwo ==
    pc = "running" => (config.mode \in ComboModes
                       /\ file.doc.mode \in ComboModes)

\* the three arguments are one provider identity
OneProfile(cmd) ==
    \E w \in Identities : /\ cmd.username = ProfileName(w)
                          /\ cmd.uuid = ProfileId(w)
                          /\ cmd.accessToken = Token(w)

\* C17: whenever the session is signed in, token, profile id and profile name
\* are those of one response, the most recent complete one (no other step
\* changes them while signed in), and a signed-in launch sends exactly them.
C17_SignedInIdentityIsOneResponse ==
    [][ /\ logged_in'
            => \E w \in Identities : /\ access_token' = Token(w)
                                     /\ uuid' = ProfileId(w)
                                     /\ username' = ProfileName(w)
        /\ (last'.op = "login" /\ last'.complete)
            => (logged_in' /\ access_token' = last'.who)
        /\ (logged_in' /\ ~(last'.op = "login" /\ last'.complete))
            => (logged_in /\ UNCHANGED <<access_token, uuid, username>>)
        /\ (last'.op = "launch" /\ last'.spawn /\ logged_in')
            => (OneProfile(last'.cmd)
                /\ last'.cmd.accessToken = access_token')
      ]_vars

\* C17 witness: A signed in, a response with B's token and no profile failed,
\* and the next launch sent the offline fallback, not B's token with A's profile
C17_Witness ==
    /\ last.op = "launch"
    /\ last.spawn
    /\ ~logged_in
    /\ access_token = Token("B")
    /\ username = ProfileName("A")
    /\ last.cmd.accessToken = "0"
    /\ last.cmd.username = "Player"

\* C18 (as claimed): a launch that got past validation and whose
\* install_java_if_needed call returned ends in a spawn or a reported spawn
\* failure.
C18_LaunchEndsInSpawnOrReport ==
    (last.op = "launch" /\ last.ensured /\ last.outcome # "ensure_raised")
    => last.outcome \in {"spawned", "spawn_failed"}

\* C19: once the client runs, after every handler the file holds the
\* settings held in memory, key by key; login changes neither.
C19_FileMatchesMemory ==
    [][ /\ pc' = "running"
            => /\ file'.exists
               /\ file'.doc.section
               /\ file'.doc.mode = config'.mode
               /\ file'.doc.java_path = config'.java_path
               /\ file'.doc.client_token = config'.client_token
        /\ last'.op = "login" => UNCHANGED <<config, file>>
      ]_vars

\* C19 witness: after a mode change and a launch that rewrote java_path
C19_Witness ==
    /\ pc = "running"
    /\ last.op = "launch"
    /\ last.ensured
    /\ config.mode = OfflineMode
    /\ config.java_path = JavaPath
    /\ file.doc = config

\* C15 (as claimed): whenever a step of the client changes the settings file,
\* the file then holds the complete new document.
C15_SaveIsAtomic ==
    [][ (pc # "start" /\ file' # file) => file'.doc = config' ]_vars

\* the three arguments are the offline fallback
OfflineFallback(cmd) ==
    /\ cmd.username = "Player"
    /\ cmd.accessToken = "0"
    /\ \E n \in 0..MaxUuid : cmd.uuid = Uuid4(n)

\* C16 (as claimed): the username, uuid and access token of a spawned command
\* are one provider identity or the offline fallback, never a mix.
C16_SpawnedIdentityIsOne ==
    (last.op = "launch" /\ last.spawn)
        => (OneProfile(last.cmd) \/ OfflineFallback(last.cmd))

====
